---- MODULE Spec2Model ----
(***************************************************************************)
(* A model of update_screening.py: main() reads the stock codes (automatic *)
(* screening or manual input), asks for confirmation, and                  *)
(* update_screening_sheet() loads the workbook, clears the screening       *)
(* window, writes one row per stock code and saves the workbook.           *)
(*                                                                         *)
(* Text is a sequence of symbols; the symbol " " is white space and ","    *)
(* is the comma. A cell value is None, a text, a number or a generated     *)
(* formula. A number is a decimal  m * 10^e ; the numbers the model draws  *)
(* are exactly representable as binary floats, so that Python's round()    *)
(* on them is round-half-even on the decimal.                              *)
(***************************************************************************)
EXTENDS Integers, Sequences, FiniteSets, TLC

VARIABLES
    pc,               \* the position of the process in main / update_screening_sheet
    stdinEOF,         \* standard input has reached its end: every input() raises EOFError
    exitStatus,       \* the status the process terminated with ("running" before)
    filepath,         \* main: filepath ("none" while unset)
    stock_codes,      \* main / update_screening_sheet: stock_codes
    criteria,         \* auto_screening: criteria
    matched_stocks,   \* auto_screening: matched_stocks
    cand_idx,         \* auto_screening: index of the next candidate code
    nlines,           \* main: the non-empty lines read at the manual prompt
    disk,             \* the workbook file as persisted at filepath
    wb,               \* update_screening_sheet: the workbook in memory
    portfolio_stocks, \* update_screening_sheet: portfolio_stocks
    idx,              \* update_screening_sheet: entries of stock_codes processed so far
    current_row,      \* update_screening_sheet: current_row
    data,             \* update_screening_sheet: data, the record fetched for the entry
    world,            \* the data provider: what get_stock_data returns for each code
    lastCall,         \* the last of get_stock_data / time.sleep that was called
    fetched,          \* the codes update_screening_sheet called get_stock_data with
    writtenRows,      \* the rows the materialization loop has assigned a cell of
    saves,            \* the number of wb.save calls
    saved,            \* wb.save returned: the workbook in memory is the persisted one
    prevRun,          \* "saved" when the run before this one saved the same list
    confirm           \* main: confirm, the answer at the confirmation prompt

vars == <<pc, stdinEOF, exitStatus, filepath, stock_codes, criteria, matched_stocks,
          cand_idx, nlines, disk, wb, portfolio_stocks, idx, current_row, data, world,
          lastCall, fetched, writtenRows, saves, saved, prevRun, confirm>>

----------------------------------------------------------------------------
(* Bounds of the model *)

\* the most non-empty lines the user types at the manual prompt
MaxLines == 2
\* how many codes beyond the 15 rows of the window the longest typed line holds
Overflow == 1

----------------------------------------------------------------------------
(* Text *)

RECURSIVE LStrip(_)
LStrip(s) == IF s # <<>> /\ Head(s) = " " THEN LStrip(Tail(s)) ELSE s

RECURSIVE RStrip(_)
RStrip(s) == IF s # <<>> /\ s[Len(s)] = " " THEN RStrip(SubSeq(s, 1, Len(s) - 1)) ELSE s

\* str.strip()
Strip(s) == RStrip(LStrip(s))

\* str.split(','): the pieces between the commas, at least one piece
RECURSIVE SplitFrom(_, _, _)
SplitFrom(s, i, piece) ==
    IF i > Len(s) THEN <<piece>>
    ELSE IF s[i] = "," THEN <<piece>> \o SplitFrom(s, i + 1, <<>>)
    ELSE SplitFrom(s, i + 1, Append(piece, s[i]))

Split(s) == SplitFrom(s, 1, <<>>)

\* str.lower() on the symbols the model types
LowerSym(c) == CASE c = "Y" -> "y" [] c = "YES" -> "yes" [] c = "N" -> "n" [] OTHER -> c

Lower(s) == [i \in 1..Len(s) |-> LowerSym(s[i])]

\* list(dict.fromkeys(xs)): the first occurrence of each element, in order
RECURSIVE DedupFrom(_, _)
DedupFrom(xs, seen) ==
    IF xs = <<>> THEN <<>>
    ELSE IF Head(xs) \in seen THEN DedupFrom(Tail(xs), seen)
    ELSE <<Head(xs)>> \o DedupFrom(Tail(xs), seen \cup {Head(xs)})

Dedup(xs) == DedupFrom(xs, {})

Range(f) == {f[i] : i \in DOMAIN f}

----------------------------------------------------------------------------
(* Values *)

None == [t |-> "none"]
Str(s) == [t |-> "str", s |-> s]
Num(m, e) == [t |-> "num", m |-> m, e |-> e]
Formula(col, row) == [t |-> "formula", col |-> col, row |-> row]

DASH == Str(<<"-">>)

IsNum(v) == v.t = "num"

RECURSIVE Pow10(_)
Pow10(k) == IF k = 0 THEN 1 ELSE 10 * Pow10(k - 1)

\* Python truthiness of a value: None, 0 and '' are false
Truthy(v) ==
    CASE v.t = "none" -> FALSE
      [] v.t = "num" -> v.m # 0
      [] v.t = "str" -> v.s # <<>>
      [] OTHER -> TRUE

\* x / 100000000 on a number
DivOku(v) == Num(v.m, v.e - 8)

\* the integer nearest to n / d (d > 0, n >= 0), halves to the even one
RoundHalfEven(n, d) ==
    LET q == n \div d
        r == n % d
    IN  IF 2 * r < d THEN q
        ELSE IF 2 * r > d THEN q + 1
        ELSE IF q % 2 = 0 THEN q ELSE q + 1

\* round(value, decimals) on a number
Round(v, decimals) ==
    IF v.e >= 0 - decimals THEN v
    ELSE IF v.m >= 0
        THEN Num(RoundHalfEven(v.m, Pow10((0 - decimals) - v.e)), 0 - decimals)
        ELSE Num(0 - RoundHalfEven(0 - v.m, Pow10((0 - decimals) - v.e)), 0 - decimals)

\* a < b on numbers, without scaling a mantissa up
NumLess(a, b) ==
    IF a.e >= b.e THEN a.m <= (b.m - 1) \div Pow10(a.e - b.e)
    ELSE a.m \div Pow10(b.e - a.e) < b.m

\* format_value(value, format_type, decimals): round() raises on a text,
\* and the bare except turns that into the placeholder
format_value(value, format_type, decimals) ==
    IF value.t = "none" THEN DASH
    ELSE IF value.t # "num" THEN
        (IF format_type \in {"number", "percent", "currency"} THEN DASH ELSE value)
    ELSE CASE format_type = "number" -> Round(value, decimals)
           [] format_type = "percent" -> Round(value, decimals)
           [] format_type = "currency" -> Round(value, 0)
           [] OTHER -> value

\* str(x) of a cell value: a text is itself, an integer is its decimal numeral
\* (one symbol; the integers the model puts into cells are 7203, 6758 and 0)
StrOf(v) ==
    IF v.t = "str" THEN v.s
    ELSE <<CASE v.m = 7203 -> "7203" [] v.m = 6758 -> "6758" [] OTHER -> "0">>

----------------------------------------------------------------------------
(* Cells, sheets, workbooks *)

INPUT_COLOR == "FFF9E6"
PORTFOLIO_ALERT_COLOR == "FFE5CC"

\* range(6, 21) x range(1, 25): the window the clear phase walks
WINDOW_FIRST == 6
WINDOW_END == 21
COL_FIRST == 1
COL_END == 25
\* the rows of the portfolio sheet get_portfolio_stocks reads: range(7, 12)
PF_FIRST == 7
PF_END == 12
\* auto_screening(max_stocks=15)
MAX_STOCKS == 15

WindowRows == WINDOW_FIRST..(WINDOW_END - 1)
Cols == COL_FIRST..(COL_END - 1)
\* the rows of the screening sheet the model holds: the window and the rows
\* after it that the longest list reaches (the codes of the longest typed
\* line and the empty code)
Rows == WINDOW_FIRST..(WINDOW_END + Overflow)
PfRows == PF_FIRST..(PF_END - 1)

\* the columns by letter, as the f'A{row}' references of the code name them
ColOf(letter) ==
    CASE letter = "A" -> 1 [] letter = "B" -> 2 [] letter = "C" -> 3 [] letter = "D" -> 4
      [] letter = "E" -> 5 [] letter = "F" -> 6 [] letter = "G" -> 7 [] letter = "H" -> 8
      [] letter = "I" -> 9 [] letter = "J" -> 10 [] letter = "K" -> 11 [] letter = "L" -> 12
      [] letter = "M" -> 13 [] letter = "N" -> 14 [] letter = "O" -> 15 [] letter = "P" -> 16
      [] letter = "Q" -> 17 [] letter = "R" -> 18 [] letter = "S" -> 19 [] letter = "T" -> 20
      [] letter = "U" -> 21 [] letter = "V" -> 22 [] letter = "W" -> 23 [] letter = "X" -> 24

\* a cell nobody has touched
BlankCell ==
    [value |-> None, fill |-> "none", number_format |-> "General",
     alignment |-> "general", border |-> "none"]

BlankSheet == [r \in Rows |-> [c \in Cols |-> BlankCell]]

SCREENING == "Screening"   \* the sheet name 'スクリーニング'
PORTFOLIO == "Portfolio"   \* the sheet name 'ポートフォリオ'

\* no workbook loaded
NoWorkbook == [sheetnames |-> {}]

----------------------------------------------------------------------------
(* get_portfolio_stocks *)

\* get_portfolio_stocks(wb): the trimmed texts of A7..A11 of the portfolio
\* sheet whose cell is truthy and not white space only
get_portfolio_stocks(book) ==
    IF PORTFOLIO \notin book.sheetnames THEN {}
    ELSE {Strip(StrOf(book.portfolio[row])) :
            row \in {r \in PfRows : /\ Truthy(book.portfolio[r])
                                    /\ Strip(StrOf(book.portfolio[r])) # <<>>}}

----------------------------------------------------------------------------
(* The materialization of one row: the assignments of the loop body, in the
   order of the source. An assignment is [col, attr, v]; the attr "raise" is
   an exception raised between two assignments. *)

Set(letter, attr, v) == <<[col |-> ColOf(letter), attr |-> attr, v |-> v]>>

Raise == <<[col |-> 0, attr |-> "raise", v |-> None]>>

center_align == "center"
left_align == "left"
thin_border == "thin"

\* a variant of RowFill that forgets the alert colour
RowFill_NoAlert(is_portfolio_stock) == INPUT_COLOR

\* alert_fill if is_portfolio_stock else input_fill
RowFill(is_portfolio_stock) ==
    IF is_portfolio_stock THEN PORTFOLIO_ALERT_COLOR ELSE INPUT_COLOR

\* a cell that gets its value, the row's fill, the alignment and the border
Filled(letter, v, fill) ==
    Set(letter, "value", v) \o Set(letter, "fill", fill)
    \o Set(letter, "alignment", center_align) \o Set(letter, "border", thin_border)

\* a numeric field: the formatted value, its number format unless the value
\* is the placeholder, then fill, alignment and border
Field(letter, v, fmt, fill) ==
    Set(letter, "value", v)
    \o (IF v # DASH THEN Set(letter, "number_format", fmt) ELSE <<>>)
    \o Set(letter, "fill", fill)
    \o Set(letter, "alignment", center_align) \o Set(letter, "border", thin_border)

\* a formula cell: the formula for the row, alignment and border
Scored(letter, row) ==
    Set(letter, "value", Formula(letter, row))
    \o Set(letter, "alignment", center_align) \o Set(letter, "border", thin_border)

\* a manual-input cell: fill, alignment and border, no value
Manual(letter, fill, align) ==
    Set(letter, "fill", fill) \o Set(letter, "alignment", align)
    \o Set(letter, "border", thin_border)

\* data['market_cap'] / 100000000 if data['market_cap'] else None
MarketCapOku(d) == IF Truthy(d.market_cap) THEN DivOku(d.market_cap) ELSE None

\* the division raises TypeError when market_cap is a non-empty text
MarketCapRaises(d) == Truthy(d.market_cap) /\ d.market_cap.t # "num"

\* data['name'] if data['name'] and data['name'] != '-' else '-'
NameOf(d) == IF Truthy(d.name) /\ d.name # DASH THEN d.name ELSE DASH

\* columns A..C
OpsHead(code, d, fill) ==
    Filled("A", Str(code), fill) \o Filled("B", NameOf(d), fill)
    \o Filled("C", d.market, fill)

\* columns D..X
OpsTail(row, d, fill) ==
    Field("D", format_value(MarketCapOku(d), "currency", 1), "#,##0", fill)
    \o Field("E", format_value(d.equity_ratio, "number", 1), "0.0", fill)
    \o Field("F", format_value(d.trading_value, "currency", 1), "#,##0", fill)
    \o Field("G", format_value(d.trailing_pe, "number", 1), "0.0", fill)
    \o Field("H", format_value(d.price_to_book, "number", 1), "0.0", fill)
    \o Scored("I", row)
    \o Field("J", format_value(d.revenue_growth, "percent", 1), "0.0", fill)
    \o Field("K", format_value(d.return_on_equity, "percent", 1), "0.0", fill)
    \o Scored("L", row)
    \o Manual("M", fill, center_align) \o Manual("N", fill, center_align)
    \o Manual("O", fill, center_align) \o Manual("P", fill, center_align)
    \o Manual("Q", fill, center_align) \o Manual("R", fill, center_align)
    \o Scored("S", row)
    \o Manual("T", fill, center_align)
    \o Scored("U", row)
    \o Manual("V", fill, center_align)
    \o Set("W", "value", Formula("W", row)) \o Set("W", "number_format", "0.0%")
    \o Set("W", "alignment", center_align) \o Set("W", "border", thin_border)
    \o Manual("X", fill, left_align)

RowOps(row, code, d, is_portfolio_stock) ==
    OpsHead(code, d, RowFill(is_portfolio_stock))
    \o (IF MarketCapRaises(d) THEN Raise
        ELSE OpsTail(row, d, RowFill(is_portfolio_stock)))

\* an assignment raises: the raise itself, or a value given to a MergedCell
\* (its value attribute is read-only)
OpRaises(op, mergedCols) ==
    \/ op.attr = "raise"
    \/ op.attr = "value" /\ op.col \in mergedCols

\* the index of the first assignment that raises, Len(ops) + 1 if none does
RaiseAt(ops, mergedCols) ==
    LET raising == {i \in 1..Len(ops) : OpRaises(ops[i], mergedCols)}
    IN  IF raising = {} THEN Len(ops) + 1
        ELSE CHOOSE i \in raising : \A j \in raising : i <= j

\* the attribute of a cell after the assignments before index k: the last
\* assignment to it wins
After(old, ops, k, col, attr) ==
    LET hits == {i \in 1..(k - 1) : ops[i].col = col /\ ops[i].attr = attr}
    IN  IF hits = {} THEN old
        ELSE ops[CHOOSE i \in hits : \A j \in hits : j <= i].v

\* the row after the assignments up to the first that raises
ApplyOps(cells, ops, mergedCols) ==
    LET k == RaiseAt(ops, mergedCols)
    IN  [cells |->
            [c \in Cols |->
                [value |-> After(cells[c].value, ops, k, c, "value"),
                 fill |-> After(cells[c].fill, ops, k, c, "fill"),
                 number_format |-> After(cells[c].number_format, ops, k, c, "number_format"),
                 alignment |-> After(cells[c].alignment, ops, k, c, "alignment"),
                 border |-> After(cells[c].border, ops, k, c, "border")]],
         raised |-> k <= Len(ops)]

MergedCols(book, row) == {c \in Cols : <<row, c>> \in book.merged}

----------------------------------------------------------------------------
(* The clear phase: for row in range(6, 21): for col in range(1, 25):
   cell.value = None. It raises at the first MergedCell, in row-major order. *)

\* <<r1, c1>> comes before <<r2, c2>> in the walk
Before(r1, c1, r2, c2) == r1 < r2 \/ (r1 = r2 /\ c1 < c2)

MergedInWindow(book) == {p \in book.merged : p[1] \in WindowRows /\ p[2] \in Cols}

ClearRaises(book) == MergedInWindow(book) # {}

FirstMerged(book) ==
    CHOOSE p \in MergedInWindow(book) :
        \A q \in MergedInWindow(book) : q = p \/ Before(p[1], p[2], q[1], q[2])

\* the cells the walk reaches
Cleared(book, r, c) ==
    /\ r \in WindowRows
    /\ c \in Cols
    /\ ClearRaises(book) => Before(r, c, FirstMerged(book)[1], FirstMerged(book)[2])

ClearSheet(book) ==
    [r \in Rows |-> [c \in Cols |->
        IF Cleared(book, r, c) THEN [book.screening[r][c] EXCEPT !.value = None]
        ELSE book.screening[r][c]]]

----------------------------------------------------------------------------
(* The data provider: the records get_stock_data returns *)

Rec(name, market, market_cap, equity_ratio, trading_value, trailing_pe, price_to_book, return_on_equity, revenue_growth) ==
    [t |-> "record", name |-> name, market |-> market, market_cap |-> market_cap,
     equity_ratio |-> equity_ratio, trading_value |-> trading_value,
     trailing_pe |-> trailing_pe, price_to_book |-> price_to_book,
     return_on_equity |-> return_on_equity, revenue_growth |-> revenue_growth]

PRIME == Str(<<"Prime">>)   \* the label 'プライム'

\* every field present; 250 oku yen, 38.25 %, 12.5 oku yen, 8.75, 0.75, 15 %, -1.25 %
RecFull ==
    Rec(Str(<<"Toyota">>), PRIME, Num(25, 9), Num(3825, -2), Num(125, -1),
        Num(875, -2), Num(75, -2), Num(15, 0), Num(-125, -2))

\* a small company: 2.5 oku yen
RecSmall ==
    Rec(Str(<<"Small">>), PRIME, Num(25, 7), Num(50, 0), Num(5, -1),
        Num(1225, -2), Num(1, 0), Num(8, 0), Num(25, -1))

\* gaps of the provider: no name, no market cap, a text for the PER
RecGaps ==
    Rec(None, PRIME, None, Num(3825, -2), None, Str(<<"Infinity">>), None,
        Num(15, 0), None)

\* a market cap of zero
RecZeroCap ==
    Rec(Str(<<"Zero">>), PRIME, Num(0, 0), None, Num(125, -1), Num(875, -2),
        Num(75, -2), None, Num(-125, -2))

\* a market cap that is a text
RecBadCap ==
    Rec(Str(<<"Bad">>), PRIME, Str(<<"N/A">>), Num(3825, -2), Num(125, -1),
        Num(875, -2), Num(75, -2), Num(15, 0), Num(-125, -2))

\* nothing but the defaults of get_stock_data
RecEmpty == Rec(DASH, PRIME, None, None, None, None, None, None, None)

\* auto_screening: candidate_codes
candidate_codes ==
    << <<"7203">>, <<"6758">>, <<"6920">>, <<"4063">>, <<"8035">>, <<"9984">>, <<"6861">>, <<"6501">>,
       <<"7974">>, <<"4502">>, <<"4503">>, <<"8306">>, <<"8316">>, <<"7751">>, <<"6971">>, <<"6702">>,
       <<"4519">>, <<"4568">>, <<"6954">>, <<"6981">>, <<"4324">>, <<"9433">>, <<"2914">>, <<"4911">>,
       <<"6367">>, <<"7267">>, <<"4452">>, <<"4523">>, <<"6178">>, <<"3382">>, <<"4704">>, <<"9697">>,
       <<"6098">>, <<"2801">>, <<"8058">>, <<"8031">>, <<"3861">>, <<"4661">>, <<"6952">>, <<"7269">>,
       <<"6976">>, <<"6645">>, <<"4188">>, <<"4901">>, <<"7733">>, <<"6273">>, <<"6479">>, <<"7832">>,
       <<"4543">>, <<"6503">>, <<"7201">>, <<"7270">>, <<"9020">>, <<"9021">>, <<"4755">>, <<"6273">> >>

\* the codes get_stock_data is called with: the candidates and the empty code
Universe == Range(candidate_codes) \cup {<<>>}

\* every code has data
WorldUp == [c \in Universe |-> IF c = <<>> THEN RecEmpty ELSE RecFull]

\* some fetches fail, some records have gaps
WorldMixed ==
    [c \in Universe |->
        CASE c = <<"7203">> -> RecFull
          [] c = <<"6920">> -> RecGaps
          [] c \in {<<"6758">>, <<"6702">>, <<"4519">>, <<>>} -> None
          [] OTHER -> RecSmall]

\* the provider returns a text where a number is expected
WorldBad ==
    [c \in Universe |->
        CASE c = <<"7203">> -> RecZeroCap
          [] c = <<"6758">> -> RecBadCap
          [] OTHER -> RecGaps]

\* the provider is down: every fetch fails
WorldDown == [c \in Universe |-> None]

Worlds == {WorldUp, WorldMixed, WorldBad, WorldDown}

\* get_stock_data(ticker_code)
get_stock_data(code) == world[code]

----------------------------------------------------------------------------
(* The workbooks the user may hand to the program *)

USER_FILL == "C6E0B4"   \* a fill colour the user chose

RowOf(code, d, row, is_portfolio_stock) ==
    ApplyOps(BlankSheet[row], RowOps(row, code, d, is_portfolio_stock), {}).cells

\* a sheet in use: rows 6 and 7 and the first row after the window hold the
\* rows of earlier runs, and the user has entered marks and notes
UsedSheet ==
    [r \in Rows |->
        CASE r = WINDOW_FIRST ->
                [RowOf(<<"7203">>, RecFull, r, FALSE) EXCEPT
                    ![ColOf("M")] = [@ EXCEPT !.value = Str(<<"o">>), !.fill = USER_FILL],
                    ![ColOf("X")] = [@ EXCEPT !.value = Str(<<"=HYPERLINK(note)">>),
                                              !.fill = USER_FILL]]
          [] r = WINDOW_FIRST + 1 ->
                [RowOf(<<"6758">>, RecSmall, r, TRUE) EXCEPT
                    ![ColOf("V")] = [@ EXCEPT !.value = Str(<<"o">>)]]
          [] r = WINDOW_END ->
                [RowOf(<<"6702">>, RecSmall, r, FALSE) EXCEPT
                    ![ColOf("T")] = [@ EXCEPT !.value = Num(5, 0)]]
          [] OTHER -> BlankSheet[r]]

\* column A of rows 7..11 of the portfolio sheet
NoHoldings == [r \in PfRows |-> None]

Holdings ==
    [r \in PfRows |->
        CASE r = PF_FIRST -> Str(<<"7203">>)
          [] r = PF_FIRST + 1 -> Num(0, 0)
          [] r = PF_FIRST + 2 -> Num(6758, 0)
          [] r = PF_FIRST + 3 -> Str(<<" ", "9999", " ">>)
          [] OTHER -> Str(<<" ">>)]

Workbook(names, sheet, merged, pf) ==
    [sheetnames |-> names, screening |-> sheet, merged |-> merged, portfolio |-> pf]

Workbooks ==
    {Workbook({PORTFOLIO}, BlankSheet, {}, Holdings)}
    \cup {Workbook({SCREENING}, sheet, {}, NoHoldings) : sheet \in {BlankSheet, UsedSheet}}
    \cup {Workbook({SCREENING, PORTFOLIO}, sheet, {}, pf) :
            sheet \in {BlankSheet, UsedSheet}, pf \in {NoHoldings, Holdings}}
    \cup {Workbook({SCREENING, PORTFOLIO}, UsedSheet, {<<WINDOW_FIRST + 1, ColOf("C")>>},
                   Holdings)}

----------------------------------------------------------------------------
(* What the user types *)

\* the first n candidate codes in one line, separated by commas
RECURSIVE Joined(_)
Joined(n) ==
    IF n = 1 THEN candidate_codes[1]
    ELSE Joined(n - 1) \o <<",">> \o candidate_codes[n]

LongLine == Joined(MAX_STOCKS + Overflow)

\* the non-empty lines typed at the prompt for the stock codes
TypedLines ==
    { <<"7203">>,
      <<" ", "6758", " ", ",", "7203", " ">>,
      <<"7203", ",", ",", "6758">>,
      LongLine }

\* the lines that end the manual input
EndLines == { <<>>, <<" ">> }

\* the answers typed at the menu and at the confirmation prompt
MenuLines == { <<>>, <<"1">>, <<" ", "2">>, <<"3">> }
ConfirmLines == { <<"y">>, <<" ", "YES">>, <<"n">>, <<>> }

\* get_screening_criteria: the conditions the prompts yield;
\* min_market_cap is 100 oku yen by default
Criteria(min_market_cap, min_per, max_per, min_pbr, max_pbr, min_roe, min_equity_ratio, min_trading_value) ==
    [min_market_cap |-> min_market_cap, min_per |-> min_per, max_per |-> max_per,
     min_pbr |-> min_pbr, max_pbr |-> max_pbr, min_roe |-> min_roe,
     min_equity_ratio |-> min_equity_ratio, min_trading_value |-> min_trading_value]

DefaultCriteria == Criteria(Num(100, 8), None, None, None, None, None, None, None)

\* the user asks for at least 1 oku yen and a PER of at most 10
TypedCriteria == Criteria(Num(1, 8), None, Num(10, 0), None, None, None, None, None)

CriteriaSet == {DefaultCriteria, TypedCriteria}

----------------------------------------------------------------------------
(* check_screening_criteria *)

\* one condition of check_screening_criteria on a field: "pass", "reject"
\* (return False) or "raise" (a text compared with a number)
CheckMin(v, bound) ==
    IF bound = None THEN "pass"
    ELSE IF v = None THEN "reject"
    ELSE IF v.t # "num" THEN "raise"
    ELSE IF NumLess(v, bound) THEN "reject" ELSE "pass"

CheckMax(v, bound) ==
    IF bound = None THEN "pass"
    ELSE IF v = None THEN "reject"
    ELSE IF v.t # "num" THEN "raise"
    ELSE IF NumLess(bound, v) THEN "reject" ELSE "pass"

\* the first condition that does not pass decides
RECURSIVE FirstVerdict(_)
FirstVerdict(checks) ==
    IF checks = <<>> THEN "pass"
    ELSE IF Head(checks) # "pass" THEN Head(checks)
    ELSE FirstVerdict(Tail(checks))

check_screening_criteria(d, crit) ==
    FirstVerdict(<<
        CheckMin(d.market_cap, crit.min_market_cap),
        CheckMin(d.trailing_pe, crit.min_per),
        CheckMax(d.trailing_pe, crit.max_per),
        CheckMin(d.price_to_book, crit.min_pbr),
        CheckMax(d.price_to_book, crit.max_pbr),
        CheckMin(d.return_on_equity, crit.min_roe),
        CheckMin(d.equity_ratio, crit.min_equity_ratio),
        CheckMin(d.trading_value, crit.min_trading_value) >>)

----------------------------------------------------------------------------
(* The process: main *)

\* sys.exit(status), or an exception nobody catches (status 1)
Exit(status) ==
    /\ pc' = "exited"
    /\ exitStatus' = status

\* input(): a line is read, or standard input is at its end
ReadsLine == ~stdinEOF

\* main, lines 696-761: the file comes from the command line, the dialog or
\* the candidate names; or the *.xlsx files are listed; or there is none
SelectFile ==
    /\ pc = "start"
    /\ \E found \in {"path", "listed", "nothing"} :
        /\ filepath' = IF found = "path" THEN "path" ELSE "none"
        /\ pc' = CASE found = "path" -> "m_exists"
                   [] found = "listed" -> "m_glob"
                   [] OTHER -> "pause_exit1"
    /\ UNCHANGED <<stdinEOF, exitStatus, stock_codes, criteria, matched_stocks, cand_idx,
                   nlines, disk, wb, portfolio_stocks, idx, current_row, data, world,
                   lastCall, fetched, writtenRows, saves,
                   saved, prevRun, confirm>>

\* main, lines 741-754: the number of the file; at the end of input the
\* handler's own input() raises EOFError, which nobody catches
GlobChoice ==
    /\ pc = "m_glob"
    /\ \E typed \in {"valid", "invalid", "eof"} :
        /\ typed # "eof" => ReadsLine
        /\ stdinEOF' = (stdinEOF \/ typed = "eof")
        /\ filepath' = IF typed = "valid" THEN "path" ELSE filepath
        /\ IF typed = "eof" THEN Exit("1")
           ELSE /\ pc' = IF typed = "valid" THEN "m_exists" ELSE "pause_exit1"
                /\ UNCHANGED exitStatus
    /\ UNCHANGED <<stock_codes, criteria, matched_stocks, cand_idx, nlines, disk, wb,
                   portfolio_stocks, idx, current_row, data, world, lastCall, fetched,
                   writtenRows, saves,
                   saved, prevRun, confirm>>

\* main, lines 764-767: os.path.exists(filepath)
CheckExists ==
    /\ pc = "m_exists"
    /\ \E exists \in BOOLEAN :
        pc' = IF exists THEN "m_menu" ELSE "pause_exit1"
    /\ UNCHANGED <<stdinEOF, exitStatus, filepath, stock_codes, criteria, matched_stocks,
                   cand_idx, nlines, disk, wb, portfolio_stocks, idx, current_row, data,
                   world, lastCall, fetched, writtenRows, saves,
                   saved, prevRun, confirm>>

\* the choice main acts on: EOF and the empty line mean '1'
MenuChoice(line) == IF Strip(line) = <<>> THEN <<"1">> ELSE Strip(line)

\* main, lines 779-825
Menu ==
    /\ pc = "m_menu"
    /\ \E eof \in BOOLEAN, line \in MenuLines :
        /\ ~eof => ReadsLine
        /\ eof => line = <<>>
        /\ stdinEOF' = (stdinEOF \/ eof)
        /\ pc' = CASE MenuChoice(line) = <<"1">> -> "a_criteria"
                   [] MenuChoice(line) = <<"2">> -> "m_manual"
                   [] OTHER -> "pause_exit1"
    /\ UNCHANGED <<exitStatus, filepath, stock_codes, criteria, matched_stocks, cand_idx,
                   nlines, disk, wb, portfolio_stocks, idx, current_row, data, world,
                   lastCall, fetched, writtenRows, saves,
                   saved, prevRun, confirm>>

\* the codes of one typed line: [code.strip() for code in user_input.split(',')]
CodesOf(user_input) ==
    LET pieces == Split(user_input)
    IN  [i \in 1..Len(pieces) |-> Strip(pieces[i])]

\* main, lines 804-820: one pass of the while loop
Manual_input ==
    /\ pc = "m_manual"
    /\ \E eof \in BOOLEAN, line \in TypedLines \cup EndLines :
        /\ ~eof => ReadsLine
        /\ eof => line = <<>>
        /\ line \in TypedLines => nlines < MaxLines
        /\ stdinEOF' = (stdinEOF \/ eof)
        /\ IF Strip(line) = <<>>
           THEN /\ pc' = IF stock_codes = <<>> THEN "pause_exit1" ELSE "m_dedup"
                /\ UNCHANGED <<stock_codes, nlines>>
           ELSE /\ stock_codes' = stock_codes \o CodesOf(Strip(line))
                /\ nlines' = nlines + 1
                /\ pc' = "m_manual"
    /\ UNCHANGED <<exitStatus, filepath, criteria, matched_stocks, cand_idx, disk, wb,
                   portfolio_stocks, idx, current_row, data, world, lastCall, fetched,
                   writtenRows, saves,
                   saved, prevRun, confirm>>

\* main, line 828
DedupCodes ==
    /\ pc = "m_dedup"
    /\ stock_codes' = Dedup(stock_codes)
    /\ pc' = "m_confirm"
    /\ UNCHANGED <<stdinEOF, exitStatus, filepath, criteria, matched_stocks, cand_idx,
                   nlines, disk, wb, portfolio_stocks, idx, current_row, data, world,
                   lastCall, fetched, writtenRows, saves,
                   saved, prevRun, confirm>>

\* the value of confirm before the prompt is reached
Unasked == <<"unasked">>

\* confirm in ['y', 'yes'] after strip().lower(); EOF means 'n'
Confirmed(line) == Lower(Strip(line)) \in {<<"y">>, <<"yes">>}

\* main, lines 833-842
Confirm ==
    /\ pc = "m_confirm"
    /\ \E eof \in BOOLEAN, line \in ConfirmLines :
        /\ ~eof => ReadsLine
        /\ eof => line = <<"n">>
        /\ stdinEOF' = (stdinEOF \/ eof)
        /\ confirm' = Lower(Strip(line))
        /\ pc' = IF Confirmed(line) THEN "u_load" ELSE "pause_exit0"
    /\ UNCHANGED <<exitStatus, filepath, stock_codes, criteria, matched_stocks, cand_idx,
                   nlines, disk, wb, portfolio_stocks, idx, current_row, data, world,
                   lastCall, fetched, writtenRows, saves,
                   saved, prevRun>>

\* main, lines 847-850: except Exception prints the traceback and goes on
Caught ==
    /\ pc = "m_caught"
    /\ pc' = "pause_return"
    /\ UNCHANGED <<stdinEOF, exitStatus, filepath, stock_codes, criteria, matched_stocks,
                   cand_idx, nlines, disk, wb, portfolio_stocks, idx, current_row, data,
                   world, lastCall, fetched, writtenRows, saves,
                   saved, prevRun, confirm>>

\* input("Enterキーで終了...") and what follows it: sys.exit(1), sys.exit(0)
\* or the end of main; at the end of input, input() raises EOFError
PauseStatus == CASE pc = "pause_exit1" -> "1" [] OTHER -> "0"

Pause ==
    /\ pc \in {"pause_exit1", "pause_exit0", "pause_return"}
    /\ \E eof \in BOOLEAN :
        /\ ~eof => ReadsLine
        /\ stdinEOF' = (stdinEOF \/ eof)
        /\ Exit(IF eof THEN "1" ELSE PauseStatus)
    /\ UNCHANGED <<filepath, stock_codes, criteria, matched_stocks, cand_idx, nlines,
                   disk, wb, portfolio_stocks, idx, current_row, data, world, lastCall,
                   fetched, writtenRows, saves,
                   saved, prevRun, confirm>>

----------------------------------------------------------------------------
(* auto_screening *)

\* get_screening_criteria: every prompt falls back to its default at the end
\* of input
GetCriteria ==
    /\ pc = "a_criteria"
    /\ \E eof \in BOOLEAN, crit \in CriteriaSet :
        /\ stdinEOF => crit = DefaultCriteria
        /\ stdinEOF' = (stdinEOF \/ eof)
        /\ criteria' = crit
    /\ matched_stocks' = <<>>
    /\ cand_idx' = 1
    /\ pc' = "a_loop"
    /\ UNCHANGED <<exitStatus, filepath, stock_codes, nlines, disk, wb, portfolio_stocks,
                   idx, current_row, data, world, lastCall, fetched, writtenRows, saves,
                   saved, prevRun, confirm>>

AutoLoopOver ==
    cand_idx > Len(candidate_codes) \/ Len(matched_stocks) >= MAX_STOCKS

\* auto_screening, lines 658-675: one candidate is fetched and checked; a
\* failed fetch continues with the next candidate; a comparison that raises
\* ends the process, nobody catches it
AutoCheck ==
    /\ pc = "a_loop"
    /\ ~AutoLoopOver
    /\ LET code == candidate_codes[cand_idx]
           d == get_stock_data(code)
           verdict == IF d = None THEN "none" ELSE check_screening_criteria(d, criteria)
       IN  /\ lastCall' = "fetch"
           /\ matched_stocks' = IF verdict = "pass" THEN Append(matched_stocks, code)
                                ELSE matched_stocks
           /\ cand_idx' = IF verdict = "none" THEN cand_idx + 1 ELSE cand_idx
           /\ IF verdict = "raise" THEN Exit("1")
              ELSE /\ pc' = IF verdict = "none" THEN "a_loop" ELSE "a_sleep"
                   /\ UNCHANGED exitStatus
    /\ UNCHANGED <<stdinEOF, filepath, stock_codes, criteria, nlines, disk, wb,
                   portfolio_stocks, idx, current_row, data, world, fetched, writtenRows,
                   saves,
                   saved, prevRun, confirm>>

\* auto_screening, line 677: time.sleep(0.3)
AutoSleep ==
    /\ pc = "a_sleep"
    /\ lastCall' = "sleep"
    /\ cand_idx' = cand_idx + 1
    /\ pc' = "a_loop"
    /\ UNCHANGED <<stdinEOF, exitStatus, filepath, stock_codes, criteria, matched_stocks,
                   nlines, disk, wb, portfolio_stocks, idx, current_row, data, world,
                   fetched, writtenRows, saves,
                   saved, prevRun, confirm>>

\* auto_screening returns matched_stocks; main, lines 789-795
AutoDone ==
    /\ pc = "a_loop"
    /\ AutoLoopOver
    /\ stock_codes' = matched_stocks
    /\ pc' = IF matched_stocks = <<>> THEN "pause_exit1" ELSE "m_dedup"
    /\ UNCHANGED <<stdinEOF, exitStatus, filepath, criteria, matched_stocks, cand_idx,
                   nlines, disk, wb, portfolio_stocks, idx, current_row, data, world,
                   lastCall, fetched, writtenRows, saves,
                   saved, prevRun, confirm>>

----------------------------------------------------------------------------
(* update_screening_sheet *)

\* start_row = 6
start_row == 6

\* lines 265-272: openpyxl.load_workbook(filepath); a failure is sys.exit(1)
LoadWorkbook ==
    /\ pc = "u_load"
    /\ \E ok \in BOOLEAN :
        IF ok THEN /\ wb' = disk
                   /\ pc' = "u_sheet"
                   /\ UNCHANGED exitStatus
        ELSE /\ Exit("1")
             /\ UNCHANGED wb
    /\ UNCHANGED <<stdinEOF, filepath, stock_codes, criteria, matched_stocks, cand_idx,
                   nlines, disk, portfolio_stocks, idx, current_row, data, world, lastCall,
                   fetched, writtenRows, saves,
                   saved, prevRun, confirm>>

\* a variant of CheckSheet that does not look for the sheet
CheckSheet_Unchecked ==
    /\ pc = "u_sheet"
    /\ portfolio_stocks' = get_portfolio_stocks(wb)
    /\ current_row' = start_row
    /\ pc' = "u_clear"
    /\ UNCHANGED <<exitStatus, stdinEOF, filepath, stock_codes, criteria, matched_stocks,
                   cand_idx, nlines, disk, wb, idx, data, world, lastCall, fetched,
                   writtenRows, saves, saved, prevRun, confirm>>

\* lines 274-302: the screening sheet must exist; the holdings are read
CheckSheet ==
    /\ pc = "u_sheet"
    /\ IF SCREENING \notin wb.sheetnames
       THEN /\ Exit("1")
            /\ UNCHANGED <<portfolio_stocks, current_row>>
       ELSE /\ portfolio_stocks' = get_portfolio_stocks(wb)
            /\ current_row' = start_row
            /\ pc' = "u_clear"
            /\ UNCHANGED exitStatus
    /\ UNCHANGED <<stdinEOF, filepath, stock_codes, criteria, matched_stocks, cand_idx,
                   nlines, disk, wb, idx, data, world, lastCall, fetched, writtenRows,
                   saves,
                   saved, prevRun, confirm>>

\* lines 304-308: the clear phase; an exception leaves update_screening_sheet
ClearPhase ==
    /\ pc = "u_clear"
    /\ wb' = [wb EXCEPT !.screening = ClearSheet(wb)]
    /\ pc' = IF ClearRaises(wb) THEN "m_caught" ELSE "u_loop"
    /\ UNCHANGED <<stdinEOF, exitStatus, filepath, stock_codes, criteria, matched_stocks,
                   cand_idx, nlines, disk, portfolio_stocks, idx, current_row, data, world,
                   lastCall, fetched, writtenRows, saves,
                   saved, prevRun, confirm>>

\* code = str(code).strip() of the entry the loop is at
CurrentCode == Strip(stock_codes[idx + 1])

\* lines 313-332: the entry's data is fetched; without data the row is
\* skipped: current_row += 1; continue
Fetch ==
    /\ pc = "u_loop"
    /\ idx < Len(stock_codes)
    /\ data' = get_stock_data(CurrentCode)
    /\ fetched' = Append(fetched, CurrentCode)
    /\ lastCall' = "fetch"
    /\ IF data' = None
       THEN /\ current_row' = current_row + 1
            /\ idx' = idx + 1
            /\ pc' = "u_loop"
       ELSE /\ pc' = "u_write"
            /\ UNCHANGED <<current_row, idx>>
    /\ UNCHANGED <<stdinEOF, exitStatus, filepath, stock_codes, criteria, matched_stocks,
                   cand_idx, nlines, disk, wb, portfolio_stocks, world, writtenRows, saves,
                   saved, prevRun, confirm>>

\* is_portfolio_stock = code in portfolio_stocks
is_portfolio_stock(code) == code \in portfolio_stocks

\* lines 337-468: the row is written; an exception leaves
\* update_screening_sheet with the row half written
WriteRow ==
    /\ pc = "u_write"
    /\ LET row == current_row
           res == ApplyOps(wb.screening[row],
                           RowOps(row, CurrentCode, data, is_portfolio_stock(CurrentCode)),
                           MergedCols(wb, row))
       IN  /\ wb' = [wb EXCEPT !.screening[row] = res.cells]
           /\ writtenRows' = writtenRows \cup {row}
           /\ current_row' = IF res.raised THEN current_row ELSE current_row + 1
           /\ pc' = IF res.raised THEN "m_caught" ELSE "u_sleep"
    /\ UNCHANGED <<stdinEOF, exitStatus, filepath, stock_codes, criteria, matched_stocks,
                   cand_idx, nlines, disk, portfolio_stocks, idx, data, world, lastCall,
                   fetched, saves,
                   saved, prevRun, confirm>>

\* line 471: time.sleep(0.5)
Sleep ==
    /\ pc = "u_sleep"
    /\ lastCall' = "sleep"
    /\ idx' = idx + 1
    /\ pc' = "u_loop"
    /\ UNCHANGED <<stdinEOF, exitStatus, filepath, stock_codes, criteria, matched_stocks,
                   cand_idx, nlines, disk, wb, portfolio_stocks, current_row, data, world,
                   fetched, writtenRows, saves,
                   saved, prevRun, confirm>>

\* a variant of Save that may save before the loop has ended
Save_Early ==
    /\ pc = "u_loop"
    /\ saves' = saves + 1
    /\ \E ok \in BOOLEAN :
        IF ok THEN /\ disk' = wb
                   /\ saved' = TRUE
                   /\ pc' = "pause_return"
                   /\ UNCHANGED exitStatus
        ELSE /\ Exit("1")
             /\ UNCHANGED <<disk, saved>>
    /\ UNCHANGED <<stdinEOF, filepath, stock_codes, criteria, matched_stocks, cand_idx,
                   nlines, wb, portfolio_stocks, idx, current_row, data, world, lastCall,
                   fetched, writtenRows, prevRun, confirm>>

\* lines 473-497: wb.save(filepath); a failure is sys.exit(1) and leaves the
\* file as it was
Save ==
    /\ pc = "u_loop"
    /\ idx = Len(stock_codes)
    /\ saves' = saves + 1
    /\ \E ok \in BOOLEAN :
        IF ok THEN /\ disk' = wb
                   /\ saved' = TRUE
                   /\ pc' = "pause_return"
                   /\ UNCHANGED exitStatus
        ELSE /\ Exit("1")
             /\ UNCHANGED <<disk, saved>>
    /\ UNCHANGED <<stdinEOF, filepath, stock_codes, criteria, matched_stocks, cand_idx,
                   nlines, wb, portfolio_stocks, idx, current_row, data, world, lastCall,
                   fetched, writtenRows, prevRun, confirm>>

----------------------------------------------------------------------------
(* The specification: one run of the program on a workbook of the user *)

Init ==
    /\ pc = "start"
    /\ stdinEOF = FALSE
    /\ exitStatus = "running"
    /\ filepath = "none"
    /\ stock_codes = <<>>
    /\ criteria = DefaultCriteria
    /\ matched_stocks = <<>>
    /\ cand_idx = 1
    /\ nlines = 0
    /\ disk \in Workbooks
    /\ wb = NoWorkbook
    /\ portfolio_stocks = {}
    /\ idx = 0
    /\ current_row = start_row
    /\ data = None
    /\ world \in Worlds
    /\ lastCall = "none"
    /\ fetched = <<>>
    /\ writtenRows = {}
    /\ saves = 0
    /\ saved = FALSE
    /\ prevRun = "none"
    /\ confirm = Unasked

Next ==
    \/ SelectFile \/ GlobChoice \/ CheckExists \/ Menu
    \/ GetCriteria \/ AutoCheck \/ AutoSleep \/ AutoDone
    \/ Manual_input \/ DedupCodes \/ Confirm
    \/ LoadWorkbook \/ CheckSheet \/ ClearPhase \/ Fetch \/ WriteRow \/ Sleep \/ Save
    \/ Caught \/ Pause

Spec == Init /\ [][Next]_vars

----------------------------------------------------------------------------
(* Two runs in a row: after the process has ended the user may enter a mark
   or a note into a cell of the columns left for manual input, and runs the
   update again with the same stock codes. *)

\* the cells the user edits between two runs: M6 and X6
EditRows == {start_row}
EditCols == {ColOf("M"), ColOf("X")}

UserEdit ==
    /\ pc = "exited"
    /\ SCREENING \in disk.sheetnames
    /\ \E r \in EditRows, c \in EditCols :
        /\ disk.screening[r][c].value = None
        /\ disk' = [disk EXCEPT !.screening[r][c] =
                        [@ EXCEPT !.value = Str(<<"o">>), !.fill = USER_FILL]]
    /\ UNCHANGED <<pc, stdinEOF, exitStatus, filepath, stock_codes, criteria,
                   matched_stocks, cand_idx, nlines, wb, portfolio_stocks, idx,
                   current_row, data, world, lastCall, fetched, writtenRows, saves,
                   saved, prevRun, confirm>>

\* the program is run again, the same codes are entered and confirmed
RunAgain ==
    /\ pc = "exited"
    /\ wb # NoWorkbook
    /\ pc' = "u_load"
    /\ prevRun' = IF saved THEN "saved" ELSE "none"
    /\ stdinEOF' = FALSE
    /\ exitStatus' = "running"
    /\ wb' = NoWorkbook
    /\ portfolio_stocks' = {}
    /\ idx' = 0
    /\ current_row' = start_row
    /\ data' = None
    /\ lastCall' = "none"
    /\ fetched' = <<>>
    /\ writtenRows' = {}
    /\ saves' = 0
    /\ saved' = FALSE
    /\ UNCHANGED <<filepath, stock_codes, criteria, matched_stocks, cand_idx, nlines,
                   disk, world, confirm>>

InitTwice ==
    /\ Init
    /\ world \in {WorldMixed, WorldBad}
    /\ disk = Workbook({SCREENING, PORTFOLIO}, UsedSheet, {}, Holdings)

NextTwice == Next \/ UserEdit \/ RunAgain

SpecTwice == InitTwice /\ [][NextTwice]_vars

----------------------------------------------------------------------------
(* Notions the claims share *)

\* the owned/protected splits of the variants: the protected range is the
\* columns after the split
Splits == {8, 10, 11}
ProtectedCols(split) == (split + 1)..(COL_END - 1)

\* the k-th entry of the list: its code, its record, its row
CodeAt(k) == Strip(stock_codes[k])
RecordAt(k) == world[CodeAt(k)]
RowAt(k) == start_row + (k - 1)

\* the entries the materialization loop has finished
Processed == 1..idx
Materialized == {k \in Processed : RecordAt(k) # None}

\* the primary list as update_screening_sheet reads it
Primary == [k \in 1..Len(stock_codes) |-> CodeAt(k)]

\* the identifier in the key cell of a row of a sheet, <<>> if it is empty
KeyOf(book, r) ==
    LET v == book.screening[r][ColOf("A")].value
    IN  IF v.t \in {"str", "num"} /\ Truthy(v) THEN Strip(StrOf(v)) ELSE <<>>

\* the cells whose fill the row's highlight is written to
HighlightCols ==
    {ColOf(l) : l \in {"A", "B", "C", "D", "E", "F", "G", "H", "J", "K",
                       "M", "N", "O", "P", "Q", "R", "T", "V", "X"}}

\* the numeric fields of a record, the column and the number format of each
NumericFields ==
    {"market_cap", "equity_ratio", "trading_value", "trailing_pe",
     "price_to_book", "revenue_growth", "return_on_equity"}

FieldCol(f) ==
    CASE f = "market_cap" -> ColOf("D") [] f = "equity_ratio" -> ColOf("E")
      [] f = "trading_value" -> ColOf("F") [] f = "trailing_pe" -> ColOf("G")
      [] f = "price_to_book" -> ColOf("H") [] f = "revenue_growth" -> ColOf("J")
      [] f = "return_on_equity" -> ColOf("K")

FieldFormat(f) == IF f \in {"market_cap", "trading_value"} THEN "#,##0" ELSE "0.0"

\* wb.save has just returned
SaveReturns == pc = "u_loop" /\ pc' = "pause_return"

----------------------------------------------------------------------------
(* C1: the clear phase changes no cell of the protected range: for every row
   of the window and every column after the split (8, 10 or 11), the cell is
   after the clear phase what it was before it. *)
C1_ClearLeavesProtected ==
    [][pc = "u_clear" =>
        \A split \in Splits : \A r \in WindowRows : \A c \in ProtectedCols(split) :
            wb'.screening[r][c] = wb.screening[r][c]]_vars

(* C2: existing-row preservation: an identifier X that has a row in the window
   before the cycle and is in the list of the cycle, with a record fetched for
   it, has in every protected cell of its row the value and the fill it had
   before the cycle. *)
C2_ExistingRowPreserved ==
    [][SaveReturns =>
        \A split \in Splits : \A r0 \in WindowRows : \A k \in Materialized :
            (KeyOf(disk, r0) # <<>> /\ KeyOf(disk, r0) = CodeAt(k)) =>
                \A c \in ProtectedCols(split) :
                    /\ disk'.screening[RowAt(k)][c].value = disk.screening[r0][c].value
                    /\ disk'.screening[RowAt(k)][c].fill = disk.screening[r0][c].fill]_vars

(* C3: list merge: the list the cycle has materialized is the primary list
   followed by the held identifiers that are not in it, so every held
   identifier has a row. *)
C3_HoldingsMerged ==
    (pc = "pause_return" /\ saved) =>
        LET rest == portfolio_stocks \ Range(Primary)
        IN  /\ Len(fetched) = Len(Primary) + Cardinality(rest)
            /\ SubSeq(fetched, 1, Len(Primary)) = Primary
            /\ {fetched[i] : i \in (Len(Primary) + 1)..Len(fetched)} = rest

(* C4 as stated: a materialized row carries the alert highlight exactly when
   its identifier is held and is not in the primary list. *)
C4_AlertIffHeldAndNotPrimary ==
    \A k \in Materialized :
        (wb.screening[RowAt(k)][ColOf("A")].fill = PORTFOLIO_ALERT_COLOR)
            <=> (CodeAt(k) \in portfolio_stocks /\ CodeAt(k) \notin Range(Primary))

(* C4 as amended: a materialized row carries the alert highlight exactly when
   its identifier is in the holdings set, whether or not it is in the primary
   list; every other materialized row carries the input colour. *)
C4_AlertIffHeld ==
    \A k \in Materialized : \A c \in HighlightCols :
        wb.screening[RowAt(k)][c].fill =
            IF CodeAt(k) \in portfolio_stocks THEN PORTFOLIO_ALERT_COLOR ELSE INPUT_COLOR

\* a finished cycle with a held identifier of the primary list highlighted
C4_Witness ==
    /\ pc = "pause_return"
    /\ saved
    /\ \E k \in Materialized :
        /\ CodeAt(k) \in portfolio_stocks
        /\ wb.screening[RowAt(k)][ColOf("A")].fill = PORTFOLIO_ALERT_COLOR
    /\ \E k \in Materialized :
        /\ CodeAt(k) \notin portfolio_stocks
        /\ wb.screening[RowAt(k)][ColOf("A")].fill = INPUT_COLOR

(* C5: fetch-failure row accounting: the k-th identifier has row 6 + (k - 1);
   if its fetch failed the row is entirely blank and nothing was written to
   it; if it succeeded the row holds the identifier (no compaction). *)
C5_RowAccounting ==
    \A k \in Processed :
        IF RecordAt(k) = None
        THEN /\ RowAt(k) \notin writtenRows
             /\ \A c \in Cols : wb.screening[RowAt(k)][c].value = None
        ELSE wb.screening[RowAt(k)][ColOf("A")].value = Str(CodeAt(k))

(* C6: placeholder on missing field: in a materialized row, a numeric field
   that is absent shows the dash and its number format is not set (it is what
   it was before the cycle); a numeric field that is present is written as a
   number with the format of the field. *)
C6_PlaceholderOnMissing ==
    ~saved =>
        \A k \in Materialized : \A f \in NumericFields :
            LET v == RecordAt(k)[f]
                cell == wb.screening[RowAt(k)][FieldCol(f)]
                before == disk.screening[RowAt(k)][FieldCol(f)]
            IN  /\ v = None => /\ cell.value = DASH
                               /\ cell.number_format = before.number_format
                /\ IsNum(v) => /\ IsNum(cell.value)
                               /\ cell.number_format = FieldFormat(f)

(* C7: merge idempotence: when the cycle runs again with the same list, the
   same holdings and the same fetch results, the protected range of every
   window row is after the second run what it was before it, marks the user
   entered between the runs included. *)
C7_SecondRunKeepsProtected ==
    [][(prevRun = "saved" /\ SaveReturns) =>
        \A split \in Splits : \A r \in WindowRows : \A c \in ProtectedCols(split) :
            disk'.screening[r][c] = disk.screening[r][c]]_vars

(* C8: no partial-success commit: wb.save is called at most once, only when
   every entry of the list has been processed; the persisted file changes at
   no other step, and then it becomes the workbook in memory; no table
   operation follows the save. *)
C8_SaveIsLast ==
    [][/\ saves' # saves =>
            /\ saves = 0 /\ saves' = 1
            /\ pc = "u_loop"
            /\ idx = Len(stock_codes)
            /\ Len(fetched) = Len(stock_codes)
       /\ disk' # disk => (saves' # saves /\ disk' = wb)
       /\ saves >= 1 => wb' = wb]_vars

\* a cycle that has saved a list of several entries, one of them skipped
C8_Witness ==
    /\ pc = "pause_return"
    /\ saved
    /\ saves = 1
    /\ Len(stock_codes) > 1
    /\ Processed \ Materialized # {}
    /\ disk = wb

(* C9: exit status: the process ends with status 0 only when the cycle was
   completed and saved, or the user cancelled at the confirmation prompt (the
   workbook was never loaded). *)
C9_ExitZeroOnlyOnSuccessOrCancel ==
    (pc = "exited" /\ exitStatus = "0") => (saved \/ wb = NoWorkbook)

(* C10: source-missing abort: a workbook without the screening sheet ends
   update_screening_sheet with status 1, with no cell modified, no fetch
   issued and no save. *)
C10_MissingSheetAborts ==
    (wb # NoWorkbook /\ SCREENING \notin wb.sheetnames) =>
        /\ pc \in {"u_sheet", "exited"}
        /\ pc = "exited" => exitStatus = "1"
        /\ wb = disk
        /\ fetched = <<>>
        /\ writtenRows = {}
        /\ saves = 0

\* the process has ended on the missing sheet
C10_Witness ==
    /\ pc = "exited"
    /\ exitStatus = "1"
    /\ wb # NoWorkbook
    /\ SCREENING \notin wb.sheetnames

\* the answers that let the update cycle start
Yes == {<<"y">>, <<"yes">>}

\* update_screening_sheet has been entered
InUpdate == pc \in {"u_load", "u_sheet", "u_clear", "u_loop", "u_write", "u_sleep", "m_caught"}

(* C11: confirmation gate: the update cycle starts only after the confirmation
   prompt was answered 'y' or 'yes'; after any other answer, or the end of
   input at the prompt, the workbook is never opened, no cell is modified,
   nothing is fetched or saved, and the process ends with status 0. *)
C11_ConfirmationGate ==
    /\ (InUpdate \/ wb # NoWorkbook \/ saves > 0 \/ fetched # <<>>) => confirm \in Yes
    /\ (confirm # Unasked /\ confirm \notin Yes) =>
            /\ ~InUpdate
            /\ wb = NoWorkbook
            /\ fetched = <<>>
            /\ writtenRows = {}
            /\ saves = 0
            /\ pc = "exited" => exitStatus = "0"

\* the position of the first occurrence of x in xs
FirstIndex(xs, x) == CHOOSE i \in 1..Len(xs) : xs[i] = x /\ \A j \in 1..(i - 1) : xs[j] # x

\* the list is handed on: main goes from the duplicate removal to the prompt
HandsOver == pc = "m_dedup" /\ pc' = "m_confirm"

(* C12: working-list well-formedness: the list handed to update_screening_sheet
   holds only non-empty, trimmed tokens (the blank tokens of the typed lines
   and of the auto-screening result are dropped), holds no identifier twice
   and keeps the order of first occurrence; no blank token is ever fetched. *)
C12_WorkingListWellFormed ==
    [][/\ HandsOver =>
            /\ \A i \in 1..Len(stock_codes') :
                    stock_codes'[i] # <<>> /\ Strip(stock_codes'[i]) = stock_codes'[i]
            /\ \A i, j \in 1..Len(stock_codes') :
                    stock_codes'[i] = stock_codes'[j] => i = j
            /\ Range(stock_codes') = {Strip(c) : c \in Range(stock_codes)} \ {<<>>}
            /\ \A i, j \in 1..Len(stock_codes') :
                    i < j => FirstIndex(stock_codes, stock_codes'[i])
                                < FirstIndex(stock_codes, stock_codes'[j])
       /\ \A i \in 1..Len(fetched') : fetched'[i] # <<>>]_vars

\* the next step calls get_stock_data again in the loop of auto_screening,
\* in the loop of update_screening_sheet
AutoFetchesAgain == pc = "a_loop" /\ ~AutoLoopOver /\ cand_idx > 1
UpdateFetchesAgain == pc = "u_loop" /\ idx < Len(stock_codes) /\ idx > 0

(* C13: rate limit: in both fetch loops a call of get_stock_data is followed
   by time.sleep before the next call of get_stock_data, whether the fetch
   succeeded or failed: no two fetches without a delay between them. *)
C13_RateLimit ==
    [][(AutoFetchesAgain \/ UpdateFetchesAgain) => lastCall = "sleep"]_vars

(* C14: row-window capacity: in every update cycle the list has at most 15
   entries, the row cursor never leaves the window (rows 6..20, the cursor
   resting on row 21 after the last entry) and every row the cycle writes is
   a row of the window, which the clear phase blanks and the allocation
   formula sums over. *)
C14_WindowCapacity ==
    /\ InUpdate => Len(stock_codes) <= MAX_STOCKS
    /\ current_row <= WINDOW_END
    /\ writtenRows \subseteq WindowRows
====
